---- MODULE Spec2Model ----
(***************************************************************************)
(* A model of the GATT attribute tree builder of bluster                   *)
(* (src/src/gatt/service.rs, src/src/common.rs) and of the requests the    *)
(* BlueZ peripheral issues to the host stack (src/src/bluez/mod.rs).       *)
(*                                                                         *)
(* Option<T> is modelled as a sequence: <<>> is None, <<x>> is Some(x).    *)
(* A value that Rust has moved away is modelled the same way: the          *)
(* variable that held it becomes <<>>.                                     *)
(***************************************************************************)
EXTENDS Integers, Sequences, FiniteSets, TLC

\* ------------------------------------------------------------------ bounds
MaxUuid == 2
MaxSender == 1
MaxSetters == 2
MaxChains == 2

Uuids == 1..MaxUuid
Senders == 1..MaxSender

\* ------------------------------------------------- gatt_properties (flags)
\* PropertyFlags is a bit set; the two capabilities that have a channel.
FlagBits == {"READ", "WRITE"}
PropertyFlags == SUBSET FlagBits

\* Properties<EventSender>::default(): no flag, no channel.
Properties_default == [flags |-> {}, read |-> <<>>, write |-> <<>>]

\* ------------------------------------------------------------ Characteristic
Characteristic_new(uuid) ==
    [uuid |-> uuid,
     characteristic_properties |-> Properties_default,
     descriptor_properties |-> Properties_default]

set_characteristic_read(self, sender) ==
    [self EXCEPT !.characteristic_properties.read = <<sender>>]

set_characteristic_write(self, sender) ==
    [self EXCEPT !.characteristic_properties.write = <<sender>>]

set_characteristic_flags(self, flags) ==
    [self EXCEPT !.characteristic_properties.flags = flags]

set_descriptor_read(self, sender) ==
    [self EXCEPT !.descriptor_properties.read = <<sender>>]

set_descriptor_write(self, sender) ==
    [self EXCEPT !.descriptor_properties.write = <<sender>>]

\* The source assigns characteristic_properties.flags here.
set_descriptor_flags(self, flags) ==
    [self EXCEPT !.characteristic_properties.flags = flags]

\* impl_uuid_hash_eq!(Characteristic): Hash and Eq look at the uuid only.
UuidEq(a, b) == a.uuid = b.uuid

\* ------------------------------------------------------------ ServiceBuilder
ServiceBuilder_new(uuid, primary) ==
    [uuid |-> uuid, primary |-> primary, characteristics |-> {}]

\* HashSet::insert: a value equal to a member is dropped, the member stays.
HashSet_insert(set, value) ==
    IF \E e \in set : UuidEq(e, value) THEN set ELSE set \cup {value}

\* consume, had it compared whole characteristics instead of uuids.
consume_structural(self, target) ==
    [self EXCEPT !.characteristics = @ \cup {target}]

\* consume, had it used HashSet::replace.
consume_replace(self, target) ==
    [self EXCEPT !.characteristics =
        {e \in @ : ~UuidEq(e, target)} \cup {target}]

consume(self, target) ==
    [self EXCEPT !.characteristics = HashSet_insert(@, target)]

build(self) == [uuid |-> self.uuid, primary |-> self.primary]

\* ------------------------------------------------------------ ChainedBuilder
ChainedBuilder_new(builder, result) == [builder |-> builder, result |-> result]

new_characteristic(self, uuid) ==
    ChainedBuilder_new(Characteristic_new(uuid), self)

\* complete_chain, had it handed the parent back without the child.
complete_chain_skip(self) == self.result

complete_chain(self) == consume(self.result, self.builder)

deref_mut(self) == self.builder

\* What a setter called through the proxy leaves behind: the setter acts on
\* the place deref_mut hands out, the rest of the proxy is untouched.
ThroughProxy(self, configured) == [self EXCEPT !.builder = configured]

\* ------------------------------------------------------------------- state
VARIABLES
    sb,          \* Option: the ServiceBuilder the caller holds
    chain,       \* Option: the ChainedBuilder the caller holds
    service,     \* Option: what the last build() returned
    nsetters,    \* setter calls made so far
    nchains,     \* new_characteristic calls made so far
    origin,      \* history: the arguments of ServiceBuilder::new
    requested,   \* history: the uuids passed to new_characteristic
    first,       \* history: uuid -> the first characteristic consumed with it
    expected,    \* history: Option, the child as the caller configured it
    dupSeen,     \* history: consume was handed a uuid already in the set
    lastOp       \* history: the last call made, [name, arg]

buildVars == <<sb, chain, service, nsetters, nchains, origin, requested,
               first, expected, dupSeen, lastOp>>

\* Rebuilding the same tree twice (two ServiceBuilders fed the same calls).
VARIABLES
    treeA,       \* the first ServiceBuilder
    treeB,       \* the second ServiceBuilder, given the same calls
    keysA,       \* the RandomState of treeA's HashSet
    keysB,       \* the RandomState of treeB's HashSet
    inserted     \* history: the uuids in the order they were first inserted

rebuildVars == <<treeA, treeB, keysA, keysB, inserted>>

\* Write requests sent on the channel attached to one characteristic.
VARIABLES
    attached,    \* the Characteristic the write channel was attached to
    queue,       \* per channel, the events buffered and not yet received
    waiting,     \* the tasks blocked on the full channel
    pc,          \* per task: "idle", "blocked" or "sent"
    submitted,   \* history: the requests in the order the tasks submitted them
    delivered    \* history: the requests in the order the application got them

chanVars == <<attached, queue, waiting, pc, submitted, delivered>>

\* Requests of the BlueZ peripheral to the host stack.
VARIABLES
    peripheral,  \* Option: the BluezPeripheral new() returned
    req,         \* Option: the method call in flight
    outcome      \* Option: how the last call ended

reqVars == <<peripheral, req, outcome>>

vars == <<buildVars, rebuildVars, chanVars, reqVars>>

None == <<>>
Some(x) == <<x>>

Op(name, arg) == [name |-> name, arg |-> arg]

IdleBuild ==
    /\ sb = None /\ chain = None /\ service = None /\ nsetters = 0
    /\ nchains = 0 /\ origin = None /\ requested = {} /\ first = <<>>
    /\ expected = None /\ dupSeen = FALSE /\ lastOp = None

IdleRebuild ==
    /\ treeA = None /\ treeB = None /\ keysA = None /\ keysB = None
    /\ inserted = <<>>

IdleChan ==
    /\ attached = None /\ queue = None /\ waiting = <<>> /\ pc = None
    /\ submitted = <<>> /\ delivered = <<>>

IdleReq == peripheral = None /\ req = None /\ outcome = None

InitBuild ==
    \E uuid \in Uuids, primary \in BOOLEAN :
        /\ sb = Some(ServiceBuilder_new(uuid, primary))
        /\ origin = [uuid |-> uuid, primary |-> primary]
        /\ chain = None
        /\ service = None
        /\ nsetters = 0
        /\ nchains = 0
        /\ requested = {}
        /\ first = <<>>
        /\ expected = None
        /\ dupSeen = FALSE
        /\ lastOp = Op("ServiceBuilder::new", None)

\* sb.new_characteristic(uuid): the builder moves into the proxy.
NewCharacteristic ==
    /\ sb # None
    /\ nchains < MaxChains
    /\ \E uuid \in Uuids :
        /\ chain' = Some(new_characteristic(sb[1], uuid))
        /\ expected' = Some(Characteristic_new(uuid))
        /\ requested' = requested \cup {uuid}
        /\ lastOp' = Op("new_characteristic", Some(uuid))
    /\ sb' = None
    /\ nchains' = nchains + 1
    /\ UNCHANGED <<service, nsetters, origin, first, dupSeen>>
    /\ UNCHANGED <<rebuildVars, chanVars, reqVars>>

\* One setter called through the proxy (DerefMut).
Configure(child) ==
    /\ chain' = Some(ThroughProxy(chain[1], child))
    /\ nsetters' = nsetters + 1
    /\ UNCHANGED <<sb, service, nchains, origin, requested, first, dupSeen>>
    /\ UNCHANGED <<rebuildVars, chanVars, reqVars>>

CanConfigure == chain # None /\ nsetters < MaxSetters

SetCharacteristicRead ==
    /\ CanConfigure
    /\ \E s \in Senders :
        /\ Configure(set_characteristic_read(deref_mut(chain[1]), s))
        /\ expected' = Some(set_characteristic_read(expected[1], s))
        /\ lastOp' = Op("set_characteristic_read", Some(s))

SetCharacteristicWrite ==
    /\ CanConfigure
    /\ \E s \in Senders :
        /\ Configure(set_characteristic_write(deref_mut(chain[1]), s))
        /\ expected' = Some(set_characteristic_write(expected[1], s))
        /\ lastOp' = Op("set_characteristic_write", Some(s))

SetCharacteristicFlags ==
    /\ CanConfigure
    /\ \E f \in PropertyFlags :
        /\ Configure(set_characteristic_flags(deref_mut(chain[1]), f))
        /\ expected' = Some(set_characteristic_flags(expected[1], f))
        /\ lastOp' = Op("set_characteristic_flags", Some(f))

SetDescriptorRead ==
    /\ CanConfigure
    /\ \E s \in Senders :
        /\ Configure(set_descriptor_read(deref_mut(chain[1]), s))
        /\ expected' = Some(set_descriptor_read(expected[1], s))
        /\ lastOp' = Op("set_descriptor_read", Some(s))

SetDescriptorWrite ==
    /\ CanConfigure
    /\ \E s \in Senders :
        /\ Configure(set_descriptor_write(deref_mut(chain[1]), s))
        /\ expected' = Some(set_descriptor_write(expected[1], s))
        /\ lastOp' = Op("set_descriptor_write", Some(s))

SetDescriptorFlags ==
    /\ CanConfigure
    /\ \E f \in PropertyFlags :
        /\ Configure(set_descriptor_flags(deref_mut(chain[1]), f))
        /\ expected' = Some(set_descriptor_flags(expected[1], f))
        /\ lastOp' = Op("set_descriptor_flags", Some(f))

\* chain.complete_chain(): the proxy is consumed, the parent comes back.
CompleteChain ==
    /\ chain # None
    /\ sb' = Some(complete_chain(chain[1]))
    /\ chain' = None
    /\ expected' = None
    /\ lastOp' = Op("complete_chain", None)
    /\ LET child == chain[1].builder
           held == chain[1].result.characteristics
       IN  /\ dupSeen' = (dupSeen \/ \E e \in held : e.uuid = child.uuid)
           /\ first' = IF child.uuid \in DOMAIN first
                       THEN first
                       ELSE first @@ (child.uuid :> child)
    /\ UNCHANGED <<service, nsetters, nchains, origin, requested>>
    /\ UNCHANGED <<rebuildVars, chanVars, reqVars>>

\* sb.build(): takes &self, the builder stays with the caller.
Build ==
    /\ sb # None
    /\ service' = Some(build(sb[1]))
    /\ lastOp' = Op("build", None)
    /\ UNCHANGED <<sb, chain, nsetters, nchains, origin, requested, first,
                   expected, dupSeen>>
    /\ UNCHANGED <<rebuildVars, chanVars, reqVars>>

NextBuild ==
    \/ NewCharacteristic
    \/ SetCharacteristicRead
    \/ SetCharacteristicWrite
    \/ SetCharacteristicFlags
    \/ SetDescriptorRead
    \/ SetDescriptorWrite
    \/ SetDescriptorFlags
    \/ CompleteChain
    \/ Build

Init == InitBuild /\ IdleRebuild /\ IdleChan /\ IdleReq

Next == NextBuild

Spec == Init /\ [][Next]_vars

\* ------------------------------------------------------------ builder claims
\* The ServiceBuilder, wherever it currently is (held, or inside the proxy).
Parent == IF sb # None THEN sb[1] ELSE chain[1].result

Configured(c) == c # Characteristic_new(c.uuid)

\* C1: once every chain is completed, the characteristic set has as many
\* members as distinct uuids were passed to new_characteristic, and no two
\* members share a uuid, whatever their flags and channels.
C1_SizeIsDistinctUuids ==
    chain = None =>
        LET cs == sb[1].characteristics
        IN  /\ Cardinality(cs) = Cardinality(requested)
            /\ \A c, d \in cs : c.uuid = d.uuid => c = d

C1_Witness ==
    /\ chain = None
    /\ dupSeen
    /\ nsetters > 0
    /\ Cardinality(sb[1].characteristics) = 1

\* A value that reports a failure carries an err field; a ServiceBuilder and
\* a Service carry none.
IsDuplicateAttribute(v) ==
    "err" \in DOMAIN v /\ v.err = "DuplicateAttribute"

\* C2: when consume was handed a uuid already in the set, DuplicateAttribute
\* has been reported to the caller at the latest when build() returns.
C2_DuplicateReported ==
    (dupSeen /\ lastOp.name = "build") =>
        (IsDuplicateAttribute(sb[1]) \/ IsDuplicateAttribute(service[1]))

ChannelIffFlag(p) ==
    /\ (p.read # None) <=> ("READ" \in p.flags)
    /\ (p.write # None) <=> ("WRITE" \in p.flags)

\* C3: in every characteristic, being configured or already consumed, a
\* read (write) channel is present iff the Read (Write) flag is set, at the
\* characteristic level and at the descriptor level.
C3_ChannelIffFlag ==
    \A c \in Parent.characteristics
             \cup (IF chain # None THEN {chain[1].builder} ELSE {}) :
        /\ ChannelIffFlag(c.characteristic_properties)
        /\ ChannelIffFlag(c.descriptor_properties)

\* C4: the Service build() returns carries the builder's uuid, its primary
\* flag and exactly the characteristics consumed so far.
C4_BuildCarriesCharacteristics ==
    lastOp.name = "build" =>
        /\ service[1].uuid = sb[1].uuid
        /\ service[1].primary = sb[1].primary
        /\ "characteristics" \in DOMAIN service[1]
        /\ service[1].characteristics = sb[1].characteristics

C8_Step ==
    /\ (chain = None /\ chain' # None) =>
            /\ chain'[1].result = sb[1]
            /\ chain'[1].builder = expected'[1]
    /\ (chain # None /\ chain' # None) =>
            /\ chain'[1].result = chain[1].result
            /\ chain'[1].builder = expected'[1]
    /\ (chain # None /\ chain' = None) =>
            sb' = Some(consume(chain[1].result, expected[1]))

\* C8: configuration through the proxy changes the child only and leaves
\* the parent as it was handed to ChainedBuilder::new; complete_chain
\* returns what the parent's consume returns for the child as configured.
C8_ProxyThenConsume == [][C8_Step]_vars

C8_Witness ==
    /\ sb # None
    /\ \E c \in sb[1].characteristics :
        /\ c.characteristic_properties.read # None
        /\ c.descriptor_properties.write # None

C9_Step ==
    LET old == chain[1].builder
        new == chain'[1].builder
        op  == lastOp'
    IN  /\ op.name = "set_descriptor_flags" =>
                /\ new.descriptor_properties.flags = op.arg[1]
                /\ new.descriptor_properties.read = old.descriptor_properties.read
                /\ new.descriptor_properties.write = old.descriptor_properties.write
                /\ new.characteristic_properties = old.characteristic_properties
        /\ op.name \in {"set_characteristic_flags", "set_characteristic_read",
                        "set_characteristic_write"} =>
                new.descriptor_properties = old.descriptor_properties

\* C9: set_descriptor_flags(f) sets the descriptor-level flags to f and
\* leaves the characteristic-level properties unchanged; the characteristic
\* setters leave the descriptor-level properties unchanged.
C9_SettersFrame == [][C9_Step]_vars

\* C10: consume never removes or replaces a member: the set holds, for each
\* uuid, the first characteristic consumed with it, unchanged, and the
\* builder keeps the uuid and primary flag it was made with.
C10_FirstInsertedKept ==
    /\ Parent.characteristics = {first[u] : u \in DOMAIN first}
    /\ Parent.uuid = origin.uuid
    /\ Parent.primary = origin.primary

C10_Witness ==
    /\ sb # None
    /\ dupSeen
    /\ \E c \in sb[1].characteristics : Configured(c)

\* ------------------------------------------------ rebuilding the same tree
\* HashSet::new() draws a fresh RandomState: which member the iteration
\* meets first depends on the keys, not on the insertion order. The keys
\* are modelled by the rank they give each uuid.
RandomStates == {k \in [Uuids -> 1..MaxUuid] : \A u, v \in Uuids : k[u] = k[v] => u = v}

\* The zero-based place of the member with this uuid in HashSet::iter().
IterIndex(set, keys, uuid) ==
    Cardinality({c \in set : keys[c.uuid] < keys[uuid]})

PATH_BASE == "/org/bluez/example"

\* <base>/service<N>/char<M>
CharPath(n, m) == <<PATH_BASE, "service", n, "char", m>>

\* The path of every characteristic of a tree that is exported as service n.
Addresses(tree, keys, n) ==
    [u \in {c.uuid : c \in tree.characteristics} |->
        CharPath(n, IterIndex(tree.characteristics, keys, u))]

InitRebuild ==
    /\ \E uuid \in Uuids, primary \in BOOLEAN :
        /\ treeA = ServiceBuilder_new(uuid, primary)
        /\ treeB = ServiceBuilder_new(uuid, primary)
    /\ keysA \in RandomStates
    /\ keysB \in RandomStates
    /\ inserted = <<>>

\* One characteristic, given to a tree by the chained calls
\* new_characteristic(uuid).set_characteristic_flags(flags).complete_chain().
WithCharacteristic(tree, uuid, flags) ==
    LET proxy == new_characteristic(tree, uuid)
    IN  complete_chain(
            ThroughProxy(proxy, set_characteristic_flags(deref_mut(proxy), flags)))

\* The same call sequence is applied to both trees.
RebuildCharacteristic ==
    /\ \E uuid \in Uuids, flags \in PropertyFlags :
        /\ treeA' = WithCharacteristic(treeA, uuid, flags)
        /\ treeB' = WithCharacteristic(treeB, uuid, flags)
        /\ inserted' = IF \E i \in 1..Len(inserted) : inserted[i] = uuid
                          THEN inserted
                          ELSE Append(inserted, uuid)
    /\ UNCHANGED <<keysA, keysB>>
    /\ UNCHANGED <<buildVars, chanVars, reqVars>>

NextRebuild == RebuildCharacteristic

StartRebuild == InitRebuild /\ IdleBuild /\ IdleChan /\ IdleReq

SpecRebuild ==
    /\ StartRebuild
    /\ [][NextRebuild]_vars

\* C6: two trees built by the same call sequence give every characteristic
\* the same path, and the M-th inserted characteristic of service 0 gets
\* <base>/service0/char<M> (M counted from zero).
C6_SameAddresses ==
    /\ Addresses(treeA, keysA, 0) = Addresses(treeB, keysB, 0)
    /\ \A m \in 1..Len(inserted) :
        Addresses(treeA, keysA, 0)[inserted[m]] = CharPath(0, m - 1)

\* ------------------------------------------------ the write event channel
MaxTasks == 3
ChannelCap == 1

Tasks == 1..MaxTasks

\* Event::WriteRequest(bytes); the payload names the task that sent it.
WriteRequest(bytes) == [event |-> "WriteRequest", bytes |-> bytes]

\* The channel the bridge sends a characteristic's write requests on.
WriteChannel(c) == c.characteristic_properties.write[1]

\* Which of the blocked senders goes on when the channel has room again:
\* the one that has waited longest.
NextWaiterNewest(w) == Len(w)

NextWaiter(w) == 1

Without(w, i) == [j \in 1..(Len(w) - 1) |-> IF j < i THEN w[j] ELSE w[j + 1]]

InitChan ==
    /\ \E uuid \in Uuids, s \in Senders :
        attached = set_characteristic_write(Characteristic_new(uuid), s)
    /\ queue = [s \in Senders |-> <<>>]
    /\ waiting = <<>>
    /\ pc = [t \in Tasks |-> "idle"]
    /\ submitted = <<>>
    /\ delivered = <<>>

\* send_event: a task submits a write request; it is buffered when the
\* channel has room and nobody is waiting, otherwise the task blocks.
Submit ==
    /\ \E t \in Tasks :
        /\ pc[t] = "idle"
        /\ submitted' = Append(submitted, WriteRequest(t))
        /\ LET ch == WriteChannel(attached)
           IN  IF waiting = <<>> /\ Len(queue[ch]) < ChannelCap
               THEN /\ queue' = [queue EXCEPT ![ch] = Append(@, WriteRequest(t))]
                    /\ pc' = [pc EXCEPT ![t] = "sent"]
                    /\ UNCHANGED waiting
               ELSE /\ waiting' = Append(waiting, t)
                    /\ pc' = [pc EXCEPT ![t] = "blocked"]
                    /\ UNCHANGED queue
    /\ UNCHANGED <<attached, delivered>>
    /\ UNCHANGED <<buildVars, rebuildVars, reqVars>>

\* A blocked sender goes on once the channel has room.
Wake ==
    /\ waiting # <<>>
    /\ LET ch == WriteChannel(attached)
           i  == NextWaiter(waiting)
       IN  /\ Len(queue[ch]) < ChannelCap
           /\ queue' = [queue EXCEPT ![ch] = Append(@, WriteRequest(waiting[i]))]
           /\ pc' = [pc EXCEPT ![waiting[i]] = "sent"]
           /\ waiting' = Without(waiting, i)
    /\ UNCHANGED <<attached, submitted, delivered>>
    /\ UNCHANGED <<buildVars, rebuildVars, reqVars>>

\* The application takes the next event off the channel.
Receive ==
    /\ LET ch == WriteChannel(attached)
       IN  /\ queue[ch] # <<>>
           /\ delivered' = Append(delivered, Head(queue[ch]))
           /\ queue' = [queue EXCEPT ![ch] = Tail(@)]
    /\ UNCHANGED <<attached, waiting, pc, submitted>>
    /\ UNCHANGED <<buildVars, rebuildVars, reqVars>>

NextChan ==
    \/ Submit
    \/ Wake
    \/ Receive

StartChan == InitChan /\ IdleBuild /\ IdleRebuild /\ IdleReq

SpecChan ==
    /\ StartChan
    /\ [][NextChan]_vars

DBUS_PROPERTIES_IFACE == "org.freedesktop.DBus.Properties"
DBUS_OBJECTMANAGER_IFACE == "org.freedesktop.DBus.ObjectManager"
BLUEZ_SERVICE_NAME == "org.bluez"
ADAPTER_IFACE == "org.bluez.Adapter1"
LE_ADVERTISING_MANAGER_IFACE == "org.bluez.LEAdvertisingManager1"

\* Duration::from_secs(30), in seconds.
BLUEZ_DBUS_TIMEOUT == 30

\* peripheral::properties: the DBUS_KEY of each PeripheralProperty.
DBUS_KEYS == {"Powered", "Discoverable", "Alias"}

\* The object paths GetManagedObjects may report.
AdapterPaths == {"/org/bluez/hci0"}

\* A proxy without a bound on the wait.
get_bluez_proxy_unbounded(path) ==
    [destination |-> BLUEZ_SERVICE_NAME, path |-> path, timeout |-> None]

\* Proxy::new(BLUEZ_SERVICE_NAME, path, BLUEZ_DBUS_TIMEOUT, connection)
get_bluez_proxy(path) ==
    [destination |-> BLUEZ_SERVICE_NAME, path |-> path,
     timeout |-> Some(BLUEZ_DBUS_TIMEOUT)]

\* proxy.method_call(interface, method, args), up to its await.
method_call(proxy, caller, interface, method, args) ==
    [proxy |-> proxy, caller |-> caller, interface |-> interface,
     method |-> method, args |-> args, elapsed |-> 0]

\* How a call ended: what the request completed with (a value or an
\* error), and what the caller of the peripheral got (Ok, Err or a panic).
Outcome(caller, reply, result) ==
    [caller |-> caller, reply |-> reply, result |-> result]

InitReq ==
    /\ peripheral = None
    /\ req = None
    /\ outcome = None

\* Peripheral::new, when DBusConnection::new fails: the error is returned.
NewConnectFails ==
    /\ req = None
    /\ outcome' = Some(Outcome("new", "none", "Err"))
    /\ UNCHANGED <<peripheral, req>>
    /\ UNCHANGED <<buildVars, rebuildVars, chanVars>>

\* Peripheral::new: DBusConnection::new, then find_adapter up to its await.
NewFindAdapter ==
    /\ req = None
    /\ req' = Some(method_call(get_bluez_proxy("/"), "find_adapter",
                               DBUS_OBJECTMANAGER_IFACE, "GetManagedObjects",
                               <<>>))
    /\ outcome' = None
    /\ UNCHANGED peripheral
    /\ UNCHANGED <<buildVars, rebuildVars, chanVars>>

\* Peripheral::get::<P>: dbus_get up to its await.
Get ==
    /\ req = None
    /\ peripheral # None
    /\ \E key \in DBUS_KEYS :
        req' = Some(method_call(get_bluez_proxy(peripheral[1].object_path),
                                "dbus_get", DBUS_PROPERTIES_IFACE, "Get",
                                <<ADAPTER_IFACE, key>>))
    /\ outcome' = None
    /\ UNCHANGED peripheral
    /\ UNCHANGED <<buildVars, rebuildVars, chanVars>>

\* Peripheral::set::<P>(value), up to its await.
Set ==
    /\ req = None
    /\ peripheral # None
    /\ \E key \in DBUS_KEYS, value \in BOOLEAN :
        req' = Some(method_call(get_bluez_proxy(peripheral[1].object_path),
                                "set", DBUS_PROPERTIES_IFACE, "Set",
                                <<ADAPTER_IFACE, key, value>>))
    /\ outcome' = None
    /\ UNCHANGED peripheral
    /\ UNCHANGED <<buildVars, rebuildVars, chanVars>>

\* A second passes while the call is pending and its bound is not reached.
Tick ==
    /\ req # None
    /\ req[1].proxy.timeout # None
    /\ req[1].elapsed < req[1].proxy.timeout[1]
    /\ req' = Some([req[1] EXCEPT !.elapsed = @ + 1])
    /\ UNCHANGED <<peripheral, outcome>>
    /\ UNCHANGED <<buildVars, rebuildVars, chanVars>>

\* The host stack answers with a value. find_adapter looks for an object
\* with the LEAdvertisingManager1 interface and panics (expect) without one.
ReplyValue ==
    /\ req # None
    /\ \/ /\ req[1].caller = "find_adapter"
          /\ \E found \in SUBSET AdapterPaths :
                IF found # {}
                THEN \E path \in found :
                        /\ peripheral' = Some([object_path |-> path])
                        /\ outcome' = Some(Outcome("new", "value", "Ok"))
                ELSE /\ UNCHANGED peripheral
                     /\ outcome' = Some(Outcome("new", "value", "panic"))
       \/ /\ req[1].caller # "find_adapter"
          /\ outcome' = Some(Outcome(req[1].caller, "value", "Ok"))
          /\ UNCHANGED peripheral
    /\ req' = None
    /\ UNCHANGED <<buildVars, rebuildVars, chanVars>>

\* The host stack answers with an error: `?` returns it to the caller.
ReplyError ==
    /\ req # None
    /\ outcome' = Some(Outcome(IF req[1].caller = "find_adapter"
                               THEN "new" ELSE req[1].caller,
                               "error", "Err"))
    /\ req' = None
    /\ UNCHANGED peripheral
    /\ UNCHANGED <<buildVars, rebuildVars, chanVars>>

\* The proxy's bound is reached: the call ends with a timeout error.
TimedOut ==
    /\ req # None
    /\ req[1].proxy.timeout # None
    /\ req[1].elapsed >= req[1].proxy.timeout[1]
    /\ outcome' = Some(Outcome(IF req[1].caller = "find_adapter"
                               THEN "new" ELSE req[1].caller,
                               "timeout", "Err"))
    /\ req' = None
    /\ UNCHANGED peripheral
    /\ UNCHANGED <<buildVars, rebuildVars, chanVars>>

NextReq ==
    \/ NewConnectFails
    \/ NewFindAdapter
    \/ Get
    \/ Set
    \/ Tick
    \/ ReplyValue
    \/ ReplyError
    \/ TimedOut

StartReq == InitReq /\ IdleBuild /\ IdleRebuild /\ IdleChan

\* Time passes, and a timer that is due fires.
SpecReq ==
    /\ StartReq
    /\ [][NextReq]_vars
    /\ WF_vars(Tick)
    /\ WF_vars(TimedOut)

\* C7: every request in flight was made through a proxy that carries
\* BLUEZ_DBUS_TIMEOUT, and every request in flight eventually completes,
\* with a value or with an error handed back.
C7_RequestsComplete ==
    /\ [](req # None => req[1].proxy.timeout = Some(BLUEZ_DBUS_TIMEOUT))
    /\ (req # None) ~>
            (req = None /\ outcome # None
                /\ outcome[1].reply \in {"value", "error", "timeout"})

\* A request the host never answered has ended with the timeout error.
C7_Witness ==
    /\ req = None
    /\ outcome # None
    /\ outcome[1].reply = "timeout"
    /\ outcome[1].result = "Err"

====
